---------------------------- MODULE Spec2Model ----------------------------
(***************************************************************************)
(* A model of ccl, the Claude launcher (src/main.go).                      *)
(*                                                                         *)
(* src/main.go holds two generations of the program:                       *)
(*   - lines 1-360:   the flag-set variant.  main takes the config name    *)
(*                    as a mandatory first argument and parses the rest    *)
(*                    with parseArgs (Go's flag.FlagSet).                  *)
(*   - lines 362-708: the hand-rolled variant.  main pre-scans the         *)
(*                    arguments for --verbose / --help / --list and then   *)
(*                    resolves them with parseFlags.                       *)
(*                                                                         *)
(* Strings are modelled as sequences of one-character strings, so that     *)
(* the byte tests of the code (arg[0] != '-', s[1] == '-', the split at    *)
(* the first '=') are computed and not assumed.  The Go empty string is    *)
(* the empty sequence.                                                     *)
(***************************************************************************)
EXTENDS Integers, Sequences, FiniteSets, TLC

(***************************************************************************)
(* Bounds of the model.                                                    *)
(***************************************************************************)
\* longest argument vector handed to a resolver
MaxArgs == 3
\* number of distinct environment values
MaxVal == 3
\* longest os.Args[1:] handed to main
MaxMainArgs == 3
\* longest argument vector with repeated --config flags
MaxConfigArgs == 4

VARIABLES
  rArgs,     \* the argument vector handed to the resolver
  rConfigs,  \* the *Configs handed to parseFlags
  called,    \* "none", or the resolver that has been applied
  result     \* what the resolver returned

VARIABLES
  eEnviron,  \* os.Environ(): a sequence of "key=value" strings
  eDefault,  \* configs.Default
  eSelected, \* selectedConfig
  eEnv       \* [built, env]: whether env was built, and the env slice

VARIABLES
  mVariant,  \* which main runs: "flagset" (lines 132-360) or "handrolled"
             \* (lines 500-708)
  mArgs,     \* os.Args[1:]
  mFile,     \* the config file: [exists, kind, configs]
  mRun       \* the run: its position, locals, output and exit status

resolverVars == <<rArgs, rConfigs, called, result>>
envVars == <<eEnviron, eDefault, eSelected, eEnv>>
mainVars == <<mVariant, mArgs, mFile, mRun>>
vars == <<resolverVars, envVars, mainVars>>

(***************************************************************************)
(* String literals of the program and of its tests.                        *)
(***************************************************************************)
s_config == <<"-", "-", "c", "o", "n", "f", "i", "g">>
s_c == <<"-", "c">>
s_yolo == <<"-", "-", "y", "o", "l", "o">>
s_y == <<"-", "y">>
s_verbose == <<"-", "-", "v", "e", "r", "b", "o", "s", "e">>
s_help == <<"-", "-", "h", "e", "l", "p">>
s_h == <<"-", "h">>
s_sentinel == <<"-", "-">>
s_empty == <<>>
s_chat == <<"c", "h", "a", "t">>
s_zai == <<"z", "a", "i">>
s_Zai == <<"Z", "a", "i">>
s_model == <<"-", "-", "m", "o", "d", "e", "l">>
s_yolo_false == <<"-", "-", "y", "o", "l", "o", "=", "f", "a", "l", "s", "e">>
s_dash == <<"-">>
s_list == <<"l", "i", "s", "t">>
s_dashlist == <<"-", "-", "l", "i", "s", "t">>
s_default == <<"d", "e", "f", "a", "u", "l", "t">>
\* the help subcommand of README.md:80
s_helpword == <<"h", "e", "l", "p">>
s_claude == <<"c", "l", "a", "u", "d", "e">>
s_skip == <<"-", "-", "d", "a", "n", "g", "e", "r", "o", "u", "s", "l", "y",
            "-", "s", "k", "i", "p", "-", "p", "e", "r", "m", "i", "s", "s",
            "i", "o", "n", "s">>
k_TMUX == <<"T", "M", "U", "X">>
s_1yolo == <<"-", "y", "o", "l", "o">>

\* the names under which parseArgs registers its flags, without dashes
n_yolo == <<"y", "o", "l", "o">>
n_y == <<"y">>
n_verbose == <<"v", "e", "r", "b", "o", "s", "e">>
n_help == <<"h", "e", "l", "p">>
n_h == <<"h">>

\* An error message is a sequence of text chunks, read concatenated: a
\* literal of the program is one chunk, a formatted-in string is its
\* characters.
\* the error of parseFlags (line 471)
errConfigRequiresValue == <<"--config requires a value">>
\* no error (Go's nil error)
errNil == <<>>

(***************************************************************************)
(* Inputs.                                                                 *)
(***************************************************************************)
\* the tokens argument vectors are drawn from
Tokens ==
  { s_config, s_c, s_yolo, s_y, s_verbose, s_help, s_h, s_sentinel,
    s_empty, s_chat, s_zai, s_Zai, s_model, s_yolo_false, s_dash,
    s_1yolo }

\* all argument vectors of at most n tokens
ArgVectors(n) == UNION { [1..k -> Tokens] : k \in 0..n }

\* a Config value: Env is absent (nil map) or a map
NilEnv == [isNil |-> TRUE, kv |-> <<>>]
Config(kv) == [Env |-> [isNil |-> FALSE, kv |-> kv]]
EmptyConfig == [Env |-> NilEnv]

\* Configs values as the tests build them: only the Configs map matters to
\* the resolver
KnownNameSets == { {}, {s_zai}, {s_zai, s_chat} }
TestConfigs(names) ==
  [Bin |-> s_empty, Default |-> EmptyConfig,
   Configs |-> [n \in names |-> EmptyConfig]]

SuffixFrom(s, i) == SubSeq(s, i, Len(s))


(***************************************************************************)
(* parseFlags (src/main.go:461-498), the hand-rolled resolver.             *)
(*                                                                         *)
(* The loop state is a record of the function's named results and its loop *)
(* index i (1-based here, 0-based in Go).  status is "run" while the loop  *)
(* runs, "ok" once the function has returned without error, "error" once   *)
(* it has returned err, and "panic" when the Go runtime aborts it.         *)
(* scanned, consumed, sentinelAt and stopAt record what the run did:       *)
(* the positions the loop classified, the positions it consumed, the       *)
(* position of the "--" branch it took and the position at which it fell   *)
(* into a stop-and-forward branch (0: none).  parseArgs keeps the same     *)
(* record, and the positions of the tokens that last set Help and Verbose. *)
(***************************************************************************)
parseFlags_init ==
  [i |-> 1, configName |-> s_empty, yolo |-> FALSE, verbose |-> FALSE,
   remainingArgs |-> <<>>, err |-> errNil, status |-> "run",
   scanned |-> {}, consumed |-> {}, sentinelAt |-> 0, stopAt |-> 0]

\* mutant of parseFlags_config: the value is not skipped (the i++ of line 469
\* is forgotten)
parseFlags_config_noSkip(args, st) ==
  IF st.i + 1 <= Len(args)
  THEN [st EXCEPT !.configName = args[st.i + 1],
                  !.consumed = @ \cup {st.i, st.i + 1},
                  !.i = st.i + 1]
  ELSE [st EXCEPT !.err = errConfigRequiresValue, !.status = "error"]

\* mutant of parseFlags_config: the bound test of line 467 is off by one
parseFlags_config_offByOne(args, st) ==
  IF st.i + 1 < Len(args)
  THEN [st EXCEPT !.configName = args[st.i + 1],
                  !.consumed = @ \cup {st.i, st.i + 1},
                  !.i = st.i + 2]
  ELSE [st EXCEPT !.err = errConfigRequiresValue, !.status = "error"]

\* mutant of parseFlags_config: a config name that is already set is kept
parseFlags_config_firstWins(args, st) ==
  IF st.i + 1 <= Len(args)
  THEN [st EXCEPT !.configName = IF @ = s_empty THEN args[st.i + 1] ELSE @,
                  !.consumed = @ \cup {st.i, st.i + 1},
                  !.i = st.i + 2]
  ELSE [st EXCEPT !.err = errConfigRequiresValue, !.status = "error"]

\* lines 466-473: --config / -c take the next token as the config name
parseFlags_config(args, st) ==
  IF st.i + 1 <= Len(args)
  THEN [st EXCEPT !.configName = args[st.i + 1],
                  !.consumed = @ \cup {st.i, st.i + 1},
                  !.i = st.i + 2]
  ELSE [st EXCEPT !.err = errConfigRequiresValue, !.status = "error"]

\* lines 474-475
parseFlags_yolo(args, st) ==
  [st EXCEPT !.yolo = TRUE, !.consumed = @ \cup {st.i}, !.i = st.i + 1]

\* lines 476-477
parseFlags_verbose(args, st) ==
  [st EXCEPT !.verbose = TRUE, !.consumed = @ \cup {st.i}, !.i = st.i + 1]

\* mutant of parseFlags_sentinel: the "--" itself is forwarded too
parseFlags_sentinel_keepsDashes(args, st) ==
  [st EXCEPT !.remainingArgs = @ \o SuffixFrom(args, st.i),
             !.consumed = @ \cup {st.i},
             !.sentinelAt = st.i,
             !.status = "ok"]

\* lines 478-481: everything after -- is passed through verbatim
parseFlags_sentinel(args, st) ==
  [st EXCEPT !.remainingArgs = @ \o SuffixFrom(args, st.i + 1),
             !.consumed = @ \cup {st.i},
             !.sentinelAt = st.i,
             !.status = "ok"]

\* mutant of parseFlags_forward: the token is collected and the scan goes on
\* (no break)
parseFlags_forward_noBreak(args, st) ==
  [st EXCEPT !.remainingArgs = Append(@, args[st.i]),
             !.stopAt = IF @ = 0 THEN st.i ELSE @,
             !.i = st.i + 1]

\* lines 487-489 and 492-494: this token and all after it are forwarded
parseFlags_forward(args, st) ==
  [st EXCEPT !.remainingArgs = @ \o SuffixFrom(args, st.i),
             !.stopAt = st.i,
             !.status = "ok"]

\* mutant of parseFlags_positional: any bare word is taken as the config
\* name, without the lookup of line 484
parseFlags_positional_anyName(args, configs, st) ==
  [st EXCEPT !.configName = args[st.i],
             !.consumed = @ \cup {st.i},
             !.i = st.i + 1]

\* lines 482-490: the first non-flag argument could be the config name
parseFlags_positional(args, configs, st) ==
  IF args[st.i] \in DOMAIN configs.Configs
  THEN [st EXCEPT !.configName = args[st.i],
                  !.consumed = @ \cup {st.i},
                  !.i = st.i + 1]
  ELSE parseFlags_forward(args, st)

\* mutant of parseFlags_step: the short spelling -y is not recognised
parseFlags_step_longYoloOnly(args, configs, st0) ==
  LET st == [st0 EXCEPT !.scanned = @ \cup {st0.i}]
      arg == args[st.i]
  IN  IF arg = s_config \/ arg = s_c THEN parseFlags_config(args, st)
      ELSE IF arg = s_yolo THEN parseFlags_yolo(args, st)
      ELSE IF arg = s_verbose THEN parseFlags_verbose(args, st)
      ELSE IF arg = s_sentinel THEN parseFlags_sentinel(args, st)
      ELSE IF Len(arg) = 0 THEN [st EXCEPT !.status = "panic"]
      ELSE IF arg[1] # "-" /\ st.configName = s_empty
           THEN parseFlags_positional(args, configs, st)
      ELSE parseFlags_forward(args, st)

\* lines 464-495: one iteration of the loop.  arg[0] on the empty string is
\* an index out of range: the runtime panics.
parseFlags_step(args, configs, st0) ==
  LET st == [st0 EXCEPT !.scanned = @ \cup {st0.i}]
      arg == args[st.i]
  IN  IF arg = s_config \/ arg = s_c THEN parseFlags_config(args, st)
      ELSE IF arg = s_yolo \/ arg = s_y THEN parseFlags_yolo(args, st)
      ELSE IF arg = s_verbose THEN parseFlags_verbose(args, st)
      ELSE IF arg = s_sentinel THEN parseFlags_sentinel(args, st)
      ELSE IF Len(arg) = 0 THEN [st EXCEPT !.status = "panic"]
      ELSE IF arg[1] # "-" /\ st.configName = s_empty
           THEN parseFlags_positional(args, configs, st)
      ELSE parseFlags_forward(args, st)

RECURSIVE parseFlags_loop(_, _, _)
\* line 463: for i = 0; i < len(args); i++
parseFlags_loop(args, configs, st) ==
  IF st.status # "run" THEN st
  ELSE IF st.i > Len(args) THEN [st EXCEPT !.status = "ok"]
  ELSE parseFlags_loop(args, configs, parseFlags_step(args, configs, st))

parseFlags(args, configs) == parseFlags_loop(args, configs, parseFlags_init)


(***************************************************************************)
(* parseArgs (src/main.go:109-129), the flag-set resolver.  It registers   *)
(* five boolean flags on a flag.FlagSet with ContinueOnError and calls     *)
(* fs.Parse; what follows is the algorithm of FlagSet.Parse / parseOne of  *)
(* the Go standard library for boolean flags.                              *)
(***************************************************************************)
\* lines 115-119: flag name -> the field of FlagOptions it is bound to
parseArgs_formal ==
  [n \in {n_yolo, n_y, n_verbose, n_help, n_h} |->
     IF n \in {n_yolo, n_y} THEN "Yolo"
     ELSE IF n = n_verbose THEN "Verbose" ELSE "Help"]

\* strconv.ParseBool, which a boolean flag's Set applies to "-name=value"
ParseBoolTrue ==
  { <<"1">>, <<"t">>, <<"T">>, <<"T", "R", "U", "E">>,
    <<"t", "r", "u", "e">>, <<"T", "r", "u", "e">> }
ParseBoolFalse ==
  { <<"0">>, <<"f">>, <<"F">>, <<"F", "A", "L", "S", "E">>,
    <<"f", "a", "l", "s", "e">>, <<"F", "a", "l", "s", "e">> }

\* the position of the first "=" of name after its first character, 0: none
EqualsAt(name) ==
  LET at == { k \in 2..Len(name) : name[k] = "=" }
  IN  IF at = {} THEN 0 ELSE CHOOSE k \in at : \A j \in at : k <= j

parseArgs_init ==
  [i |-> 1, Yolo |-> FALSE, Verbose |-> FALSE, Help |-> FALSE,
   remaining |-> <<>>, err |-> errNil, status |-> "run",
   scanned |-> {}, consumed |-> {}, sentinelAt |-> 0, stopAt |-> 0,
   helpAt |-> 0, verboseAt |-> 0]

\* parseArgs returns nil, nil, err (lines 123-125)
parseArgs_fail(st, msg) ==
  [st EXCEPT !.Yolo = FALSE, !.Verbose = FALSE, !.Help = FALSE,
             !.remaining = <<>>, !.err = msg, !.status = "error"]

\* a boolean flag is set to its value, or to true when it has none
parseArgs_set(st, s, name, hasValue, value) ==
  LET fld == parseArgs_formal[name]
      ok == (~hasValue) \/ value \in ParseBoolTrue \cup ParseBoolFalse
      b == (~hasValue) \/ value \in ParseBoolTrue
      nx == [st EXCEPT !.consumed = @ \cup {st.i}, !.i = st.i + 1]
  IN  IF ~ok
      THEN parseArgs_fail(st, <<"invalid boolean value \"">> \o value
                                \o <<"\" for -">> \o name
                                \o <<": parse error">>)
      ELSE IF fld = "Yolo" THEN [nx EXCEPT !.Yolo = b]
      ELSE IF fld = "Verbose"
      THEN [nx EXCEPT !.Verbose = b, !.verboseAt = IF b THEN st.i ELSE 0]
      ELSE [nx EXCEPT !.Help = b, !.helpAt = IF b THEN st.i ELSE 0]

\* mutant of parseArgs_parseOne: lenient, a flag that is not defined ends the
\* flags and is forwarded like a non-flag argument
parseArgs_parseOne_lenient(args, st0) ==
  LET st == [st0 EXCEPT !.scanned = @ \cup {st0.i}]
      s == args[st.i]
      name == IF Len(s) >= 2 /\ s[2] = "-" THEN SuffixFrom(s, 3)
              ELSE SuffixFrom(s, 2)
  IN  IF Len(s) < 2 \/ s[1] # "-" \/ name \notin DOMAIN parseArgs_formal
      THEN IF s = s_sentinel
           THEN [st EXCEPT !.remaining = SuffixFrom(args, st.i + 1),
                           !.consumed = @ \cup {st.i},
                           !.sentinelAt = st.i, !.status = "ok"]
           ELSE [st EXCEPT !.remaining = SuffixFrom(args, st.i),
                           !.stopAt = st.i, !.status = "ok"]
      ELSE parseArgs_set(st, s, name, FALSE, <<>>)

\* FlagSet.parseOne on the token at position st.i
parseArgs_parseOne(args, st0) ==
  LET st == [st0 EXCEPT !.scanned = @ \cup {st0.i}]
      s == args[st.i]
  IN  IF Len(s) < 2 \/ s[1] # "-"
      THEN \* a non-flag argument ends the flags and is kept (line 128)
           [st EXCEPT !.remaining = SuffixFrom(args, st.i),
                      !.stopAt = st.i, !.status = "ok"]
      ELSE IF s = s_sentinel
      THEN \* "--" terminates the flags and is dropped
           [st EXCEPT !.remaining = SuffixFrom(args, st.i + 1),
                      !.consumed = @ \cup {st.i},
                      !.sentinelAt = st.i, !.status = "ok"]
      ELSE
        LET numMinuses == IF s[2] = "-" THEN 2 ELSE 1
            full == SuffixFrom(s, numMinuses + 1)
            eq == EqualsAt(full)
            hasValue == eq # 0
            name == IF hasValue THEN SubSeq(full, 1, eq - 1) ELSE full
            value == IF hasValue THEN SuffixFrom(full, eq + 1) ELSE <<>>
        IN  IF Len(full) = 0 \/ full[1] = "-" \/ full[1] = "="
            THEN parseArgs_fail([st EXCEPT !.stopAt = st.i],
                                <<"bad flag syntax: ">> \o s)
            ELSE IF name \notin DOMAIN parseArgs_formal
            THEN parseArgs_fail([st EXCEPT !.stopAt = st.i],
                   <<"flag provided but not defined: -">> \o name)
            ELSE parseArgs_set(st, s, name, hasValue, value)

RECURSIVE parseArgs_Parse(_, _)
\* FlagSet.Parse (line 122): parseOne until a token is not a flag
parseArgs_Parse(args, st) ==
  IF st.status # "run" THEN st
  ELSE IF st.i > Len(args) THEN [st EXCEPT !.status = "ok"]
  ELSE parseArgs_Parse(args, parseArgs_parseOne(args, st))

parseArgs(args) == parseArgs_Parse(args, parseArgs_init)


(***************************************************************************)
(* Environment composition (src/main.go:252-303 and 637-688, the same code *)
(* in both variants of main).  A Go map is a function; its iteration order *)
(* is unspecified, so the env slice built from it is modelled as the set   *)
(* of its entries.                                                         *)
(***************************************************************************)
\* the position of the first "=" of s, 0: none
FirstEq(s) ==
  LET at == { k \in 1..Len(s) : s[k] = "=" }
  IN  IF at = {} THEN 0 ELSE CHOOSE k \in at : \A j \in at : k <= j

\* strings.SplitN(envVar, "=", 2) (lines 257, 642)
SplitN2(envVar) ==
  IF FirstEq(envVar) = 0 THEN <<envVar>>
  ELSE <<SubSeq(envVar, 1, FirstEq(envVar) - 1),
         SuffixFrom(envVar, FirstEq(envVar) + 1)>>

\* envMap[key] = value
MapSet(m, key, value) ==
  [k \in DOMAIN m \cup {key} |-> IF k = key THEN value ELSE m[k]]

RECURSIVE env_fromEnviron(_, _)
\* lines 256-260: start with the current environment
env_fromEnviron(environ, envMap) ==
  IF environ = <<>> THEN envMap
  ELSE LET parts == SplitN2(Head(environ))
       IN  env_fromEnviron(Tail(environ),
             IF Len(parts) = 2 THEN MapSet(envMap, parts[1], parts[2])
             ELSE envMap)

\* lines 268-279 and 282-292: for key, value := range cfg.Env, when not nil
env_merge(envMap, cfg) ==
  IF cfg.Env.isNil THEN envMap
  ELSE [k \in DOMAIN envMap \cup DOMAIN cfg.Env.kv |->
          IF k \in DOMAIN cfg.Env.kv THEN cfg.Env.kv[k] ELSE envMap[k]]

\* lines 253-297: process environment, then default.Env, then the selected
\* config's env
env_map(environ, default, selected) ==
  env_merge(env_merge(env_fromEnviron(environ, <<>>), default), selected)

\* lines 300-303: fmt.Sprintf("%s=%s", key, value) for each entry
env_slice(envMap) ==
  { k \o <<"=">> \o envMap[k] : k \in DOMAIN envMap }

composeEnv(environ, default, selected) ==
  env_slice(env_map(environ, default, selected))

(***************************************************************************)
(* main.  A run is the record mRun:                                        *)
(*   pc      "start", "resolved" (arguments resolved, config selected,     *)
(*           arguments transformed), "ready" (environment composed, title  *)
(*           set, executable located), "replaced" (syscall.Exec took       *)
(*           over), "exited" (os.Exit) or "panicked" (runtime panic)       *)
(*   runNo   1 for the first run, 2 for a run after the first run created   *)
(*           the config file                                               *)
(*   exit    the exit status, -1 while the process lives                   *)
(*   events  what the run printed and which external interactions it made, *)
(*           in order                                                      *)
(* and the locals of main.  helpAt, listAt and verboseAt record the        *)
(* position in os.Args[1:] of the token that triggered the usage text, the *)
(* list, or verbose logging (0: none).  envAt is the number of events of    *)
(* the run when the environment had been composed (-1: not composed).      *)
(***************************************************************************)
Ev(kind, text, data) == [kind |-> kind, text |-> text, data |-> data]

Out(run, ev) == [run EXCEPT !.events = Append(@, ev)]

\* os.Exit(code)
Exit(run, code) == [run EXCEPT !.pc = "exited", !.exit = code]

NoConfigs == [Bin |-> s_empty, Default |-> EmptyConfig, Configs |-> <<>>]

main_init ==
  [runNo |-> 1, pc |-> "start", exit |-> -1, events |-> <<>>,
   configs |-> NoConfigs, loadCalled |-> FALSE, loaded |-> FALSE,
   configName |-> s_empty, yolo |-> FALSE, verbose |-> FALSE, help |-> FALSE,
   args |-> <<>>, selectedConfig |-> EmptyConfig, transformedArgs |-> <<>>,
   environ |-> <<>>, env |-> {}, claudePath |-> s_empty,
   helpAt |-> 0, listAt |-> 0, verboseAt |-> 0, envAt |-> -1]

\* the first position of s holding a member of toks, 0: none
FirstAt(s, toks) ==
  LET at == { k \in 1..Len(s) : s[k] \in toks }
  IN  IF at = {} THEN 0 ELSE CHOOSE k \in at : \A j \in at : k <= j

(***************************************************************************)
(* loadConfigs (src/main.go:47-75 and 399-427).  The outcomes for a given  *)
(* file: [ok, configs, file, events, err].  Creating the directory,        *)
(* writing and reading the file may each fail.  A file is                  *)
(* [exists, kind, configs]: kind "json" when it unmarshals into configs,   *)
(* "garbage" when it does not.                                             *)
(***************************************************************************)
\* ccl.example.json, the embedded default config (lines 20-21); the file is
\* not part of the sources, README.md:124-153 shows its shape
ExampleConfigs ==
  [Bin |-> s_empty,
   Default |-> Config(<<>>),
   Configs |-> [n \in {s_zai} |-> Config(<<>>)]]

\* mutant of loadConfigs: after creating the file the run goes on with an
\* empty configuration
loadConfigs_proceedsEmpty(file) ==
  IF ~file.exists
  THEN { [ok |-> TRUE, configs |-> NoConfigs,
          file |-> [exists |-> TRUE, kind |-> "json",
                    configs |-> ExampleConfigs],
          events |-> << Ev("stdout", "Created default config at", <<>>) >>,
          err |-> ""] }
  ELSE { [ok |-> TRUE, configs |-> file.configs, file |-> file,
          events |-> <<>>, err |-> ""] }

loadConfigs(file) ==
  IF ~file.exists
  THEN { [ok |-> FALSE, configs |-> NoConfigs, file |-> file, events |-> <<>>,
          err |-> "error creating config directory"],
         [ok |-> FALSE, configs |-> NoConfigs, file |-> file, events |-> <<>>,
          err |-> "error writing config file"],
         [ok |-> FALSE, configs |-> NoConfigs,
          file |-> [exists |-> TRUE, kind |-> "json",
                    configs |-> ExampleConfigs],
          events |-> << Ev("stdout", "Created default config at", <<>>),
                        Ev("stdout", "Please edit the config file", <<>>) >>,
          err |-> "config file created, please edit it and run again"] }
  ELSE { [ok |-> FALSE, configs |-> NoConfigs, file |-> file, events |-> <<>>,
          err |-> "error reading config"] }
       \cup
       ( IF file.kind = "garbage"
         THEN { [ok |-> FALSE, configs |-> NoConfigs, file |-> file,
                 events |-> <<>>, err |-> "error parsing config"] }
         ELSE { [ok |-> TRUE, configs |-> file.configs, file |-> file,
                 events |-> <<>>, err |-> ""] } )

\* the names printed after "Available configurations:"
ConfigNames(configs) == DOMAIN configs.Configs

(***************************************************************************)
(* main, hand-rolled variant (src/main.go:500-708).                        *)
(***************************************************************************)
\* mutant of mainHR_select: an unknown name falls back to the default config
mainHR_select_fallsBack(run) ==
  IF run.pc # "start" THEN run
  ELSE IF run.configName \in DOMAIN run.configs.Configs
  THEN [run EXCEPT !.selectedConfig = run.configs.Configs[run.configName]]
  ELSE [run EXCEPT !.selectedConfig = run.configs.Default]

\* lines 560-577: the default config, or the named one; not found exits 1
mainHR_select(run) ==
  IF run.pc # "start" THEN run
  ELSE IF run.configName = s_empty
  THEN [run EXCEPT !.selectedConfig = run.configs.Default]
  ELSE IF run.configName \in DOMAIN run.configs.Configs
  THEN LET sel == run.configs.Configs[run.configName]
           r1 == [run EXCEPT !.selectedConfig = sel]
       IN  IF run.verbose
           THEN Out(r1, Ev("stdout", "Selected config: %+v", sel))
           ELSE r1
  ELSE Exit(Out(Out(run,
         Ev("stderr", "Config not found", run.configName)),
         Ev("stderr", "Available configurations:", ConfigNames(run.configs))),
         1)

\* mutant of main_transform: the literal token is appended after the
\* arguments
main_transform_appends(run) ==
  IF run.pc # "start" THEN run
  ELSE [run EXCEPT !.transformedArgs =
          run.args \o (IF run.yolo THEN <<s_skip>> ELSE <<>>)]

\* lines 579-595: --yolo becomes --dangerously-skip-permissions
main_transform(run) ==
  IF run.pc # "start" THEN run ELSE
  LET t1 == IF run.yolo THEN <<s_skip>> ELSE <<>>
      r1 == IF run.yolo /\ run.verbose
            THEN Out(run, Ev("stdout", "Transforming --yolo", <<>>))
            ELSE run
      r2 == [r1 EXCEPT !.transformedArgs = t1 \o run.args]
  IN  IF run.verbose
      THEN Out(Out(Out(r2,
             Ev("stdout", "Final selected config: %+v", r2.selectedConfig)),
             Ev("stdout", "Config name:", r2.configName)),
             Ev("stdout", "Transformed args:", r2.transformedArgs))
      ELSE r2

\* lines 550-558: what main does with the results of parseFlags
mainHR_parsed(run, res) ==
      IF res.status = "panic"
      THEN [run EXCEPT !.pc = "panicked", !.exit = 2]
      ELSE IF res.status = "error"
      THEN Exit(Out(run, Ev("stderr", "Error:", res.err)), 1)
      ELSE LET r1 == [run EXCEPT !.configName = res.configName,
                                 !.yolo = res.yolo,
                                 !.verbose = res.verbose,
                                 !.args = res.remainingArgs]
           IN  IF res.verbose
               THEN Out(r1, Ev("stdout", "Parsed:",
                          <<res.configName, res.yolo, res.verbose,
                            res.remainingArgs>>))
               ELSE r1

\* line 550: parseFlags on all of os.Args[1:]
mainHR_parse(osArgs, run) ==
  IF run.pc # "start" THEN run
  ELSE mainHR_parsed(run, parseFlags(osArgs, run.configs))

\* lines 520-543: the help and list pre-scans over all of os.Args[1:]
mainHR_prescan(osArgs, run) ==
  IF run.pc # "start" THEN run ELSE
  LET h == FirstAt(osArgs, {s_help, s_h})
      l == FirstAt(osArgs, {s_dashlist})
  IN  IF h # 0
      THEN Exit(Out([run EXCEPT !.helpAt = h],
                    Ev("stderr", "Usage:", <<>>)), 0)
      ELSE IF l # 0
      THEN Exit(Out([run EXCEPT !.listAt = l],
                    Ev("stderr", "Available configurations:",
                       ConfigNames(run.configs))), 0)
      ELSE IF run.verbose
      THEN Out(run, Ev("stdout", "Initial args:", osArgs))
      ELSE run

\* lines 500-518: the early --verbose scan, then loadConfigs
mainHR_load(osArgs, run, outcome) ==
  LET v == FirstAt(osArgs, {s_verbose})
      r0 == [run EXCEPT !.verbose = (v # 0), !.verboseAt = v]
      r1 == IF v # 0 THEN Out(r0, Ev("stdout", "Using config:", <<>>)) ELSE r0
      r2 == [r1 EXCEPT !.events = @ \o outcome.events, !.loadCalled = TRUE]
  IN  IF outcome.ok
      THEN [r2 EXCEPT !.configs = outcome.configs, !.loaded = TRUE]
      ELSE Exit(Out(r2, Ev("stderr", "Error:", outcome.err)), 1)

\* the arguments are resolved if the process got that far
main_resolved(run) ==
  IF run.pc = "start" THEN [run EXCEPT !.pc = "resolved"] ELSE run

\* lines 500-595: from the start to the transformed arguments
mainHR_resolve(osArgs, run, outcome) ==
  main_resolved(main_transform(mainHR_select(mainHR_parse(osArgs,
    mainHR_prescan(osArgs, mainHR_load(osArgs, run, outcome))))))

(***************************************************************************)
(* main, flag-set variant (src/main.go:132-360).                           *)
(***************************************************************************)
\* lines 150-154 and 186-190: loadConfigs, an error exits 1
mainFS_load(run, outcome) ==
  IF run.pc # "start" THEN run ELSE
  LET r1 == [run EXCEPT !.events = @ \o outcome.events, !.loadCalled = TRUE]
  IN  IF outcome.ok
      THEN [r1 EXCEPT !.configs = outcome.configs, !.loaded = TRUE]
      ELSE Exit(Out(r1, Ev("stderr", "Error:", outcome.err)), 1)

\* lines 148-162: the list subcommand
mainFS_listed(run) ==
  IF run.pc # "start" THEN run
  ELSE Exit(Out(run, Ev("stderr", "Available configurations:",
                        {s_default} \cup ConfigNames(run.configs))), 0)

mainFS_list(run, outcome) ==
  mainFS_listed(mainFS_load([run EXCEPT !.listAt = 1], outcome))

\* lines 164-183: what main does with the results of parseArgs
mainFS_parsed(osArgs, run, res) ==
      IF res.status = "error"
      THEN Exit(Out(Out([run EXCEPT !.configName = osArgs[1]],
             Ev("stderr", "flag: error and usage", res.err)),
             Ev("stderr", "Error parsing flags:", res.err)), 1)
      ELSE LET r1 == [run EXCEPT
                        !.configName = osArgs[1],
                        !.yolo = res.Yolo, !.verbose = res.Verbose,
                        !.help = res.Help, !.args = res.remaining,
                        !.helpAt = IF res.helpAt = 0 THEN 0
                                   ELSE res.helpAt + 1,
                        !.verboseAt = IF res.verboseAt = 0 THEN 0
                                      ELSE res.verboseAt + 1]
           IN  IF res.Verbose
               THEN Out(Out(r1,
                      Ev("stdout", "Initial args:", osArgs)),
                      Ev("stdout", "Parsed flags:",
                         <<res.Yolo, res.Verbose, res.Help, res.remaining>>))
               ELSE r1

\* lines 165-169: the first argument is the config name, parseArgs the rest
mainFS_parse(osArgs, run) ==
  mainFS_parsed(osArgs, run, parseArgs(SuffixFrom(osArgs, 2)))

\* mutant of mainFS_help: the help flag is not acted on before the selection
mainFS_help_ignored(run) == run

\* lines 192-206: the usage text
mainFS_help(run) ==
  IF run.pc # "start" THEN run
  ELSE IF run.help THEN Exit(Out(run, Ev("stderr", "Usage:", <<>>)), 0) ELSE run

\* mutant of mainFS_select: a name that is neither "default" nor a key of
\* configs selects the default configuration
mainFS_select_unvalidated(run) ==
  IF run.pc # "start" THEN run
  ELSE IF run.configName \in DOMAIN run.configs.Configs
  THEN [run EXCEPT !.selectedConfig = run.configs.Configs[run.configName]]
  ELSE [run EXCEPT !.selectedConfig = run.configs.Default]

\* lines 209-232: "default", or the named config; not found exits 1
mainFS_select(run) ==
  IF run.pc # "start" THEN run ELSE
  LET v(r, text) == IF run.verbose
                    THEN Out(r, Ev("stdout", text, r.selectedConfig)) ELSE r
  IN  IF run.configName = s_default
      THEN v([run EXCEPT !.selectedConfig = run.configs.Default],
             "Using default config: %+v")
      ELSE IF run.configName \in DOMAIN run.configs.Configs
      THEN v([run EXCEPT !.selectedConfig =
                           run.configs.Configs[run.configName]],
             "Selected config: %+v")
      ELSE Exit(Out(Out(run,
             Ev("stderr", "Config not found", run.configName)),
             Ev("stderr", "Available configurations:",
                {s_default} \cup ConfigNames(run.configs))), 1)

\* lines 132-250: from the start to the transformed arguments
mainFS_resolve(osArgs, run, outcome) ==
  IF Len(osArgs) = 0
  THEN Exit(Out(run, Ev("stderr", "Error: config name or subcommand required",
                        <<>>)), 1)
  ELSE IF osArgs[1] = s_list
  THEN mainFS_list(run, outcome)
  ELSE main_resolved(main_transform(mainFS_select(mainFS_help(
         mainFS_load(mainFS_parse(osArgs, run), outcome)))))

(***************************************************************************)
(* isSensitiveKey (src/main.go:103-107 and 455-459).                       *)
(***************************************************************************)
LowerLetters ==
  <<"a", "b", "c", "d", "e", "f", "g", "h", "i", "j", "k", "l", "m",
    "n", "o", "p", "q", "r", "s", "t", "u", "v", "w", "x", "y", "z">>
UpperLetters ==
  <<"A", "B", "C", "D", "E", "F", "G", "H", "I", "J", "K", "L", "M",
    "N", "O", "P", "Q", "R", "S", "T", "U", "V", "W", "X", "Y", "Z">>

\* strings.ToUpper
ToUpper(s) ==
  [i \in 1..Len(s) |->
     IF \E j \in 1..26 : LowerLetters[j] = s[i]
     THEN UpperLetters[CHOOSE j \in 1..26 : LowerLetters[j] = s[i]]
     ELSE s[i]]

\* strings.Contains
Contains(s, sub) ==
  \E i \in 1..(Len(s) - Len(sub) + 1) : SubSeq(s, i, i + Len(sub) - 1) = sub

isSensitiveKey(key) ==
  LET upper == ToUpper(key)
  IN  \/ Contains(upper, <<"T", "O", "K", "E", "N">>)
      \/ Contains(upper, <<"K", "E", "Y">>)
      \/ Contains(upper, <<"S", "E", "C", "R", "E", "T">>)
      \/ Contains(upper, <<"P", "A", "S", "S", "W", "O", "R", "D">>)

s_masked == <<"*", "*", "*", "m", "a", "s", "k", "e", "d", "*", "*", "*">>

(***************************************************************************)
(* The rest of main: environment, title, executable, replacement.          *)
(***************************************************************************)
\* os.Getenv on an environment
Getenv(environ, key) ==
  LET hits == { i \in 1..Len(environ) :
                  /\ Len(SplitN2(environ[i])) = 2
                  /\ SplitN2(environ[i])[1] = key }
  IN  IF hits = {} THEN s_empty
      ELSE SplitN2(environ[CHOOSE i \in hits : \A j \in hits : i <= j])[2]

\* what the verbose loops of lines 268-292 and 653-677 print for one config
env_logged(cfg) ==
  IF cfg.Env.isNil THEN {}
  ELSE { <<k, IF isSensitiveKey(k) THEN s_masked ELSE cfg.Env.kv[k]>> :
           k \in DOMAIN cfg.Env.kv }

\* lines 252-307 and 637-692: build the environment, logging when verbose
main_env(run, environ) ==
  LET r1 == [run EXCEPT !.environ = environ,
                        !.env = composeEnv(environ, run.configs.Default,
                                           run.selectedConfig),
                        !.envAt = Len(run.events)
                                  + (IF run.verbose THEN 4 ELSE 0)]
  IN  IF ~run.verbose THEN r1
      ELSE Out(Out(Out(Out(r1,
             Ev("stdout", "Original env count:", <<>>)),
             Ev("stdout", "Added default env var:",
                env_logged(run.configs.Default))),
             IF run.selectedConfig.Env.isNil
             THEN Ev("stdout", "No environment variables configured", <<>>)
             ELSE Ev("stdout", "Added selected env var:",
                     env_logged(run.selectedConfig))),
             Ev("stdout", "Final env count:", <<>>))

\* setTerminalTitle (lines 82-101 and 434-453)
setTerminalTitle(run, configName) ==
  LET title == IF configName # s_empty
               THEN s_claude \o <<" ", "(">> \o configName \o <<")">>
               ELSE s_claude
  IN  IF Getenv(run.environ, k_TMUX) # s_empty
      THEN Out(run, Ev("spawn", "tmux rename-window", title))
      ELSE Out(run, Ev("stdout", "ESC]0;title BEL", title))

p_which == <<"/", "w">>
p_fallback == <<"/", "f">>
p_lookpath == <<"/", "l">>
p_bin == <<"/", "b">>

\* lines 597-635: `which claude`, then the fallback paths
mainHR_locate(run, lookup) ==
  LET r0 == Out(run, Ev("spawn", "which claude", <<>>))
      v(r, text) == IF run.verbose THEN Out(r, Ev("stdout", text, <<>>)) ELSE r
  IN  IF lookup = "found"
      THEN v([r0 EXCEPT !.claudePath = p_which], "Found claude via 'which'")
      ELSE LET r1 == Out(v(v(r0, "'which claude' failed"),
                             "Trying fallback paths"),
                         Ev("stat", "fallback paths", <<>>))
           IN  IF lookup = "fallback"
               THEN v([r1 EXCEPT !.claudePath = p_fallback],
                      "Found claude at fallback path")
               ELSE Exit(Out(r1, Ev("stderr", "claude command not found",
                                    <<>>)), 1)

\* lines 597-695: executable, environment, title
mainHR_prepare(run, lookup, environ) ==
  LET r1 == mainHR_locate(run, lookup)
      r2 == IF r1.pc = "resolved" THEN main_env(r1, environ) ELSE r1
      r3 == IF r2.pc = "resolved"
            THEN setTerminalTitle(r2, r2.configName) ELSE r2
  IN  IF r3.pc = "resolved" THEN [r3 EXCEPT !.pc = "ready"] ELSE r3

\* lines 312-341: the configured binary, or exec.LookPath
mainFS_locate(run, lookup) ==
  LET v(r, text) == IF run.verbose THEN Out(r, Ev("stdout", text, <<>>)) ELSE r
  IN  IF run.configs.Bin # s_empty
      THEN v([run EXCEPT !.claudePath = run.configs.Bin],
             "Using configured binary path")
      ELSE LET r0 == Out(run, Ev("stat", "exec.LookPath claude", <<>>))
           IN  IF lookup = "found"
               THEN v([r0 EXCEPT !.claudePath = p_lookpath],
                      "Found claude in PATH")
               ELSE Exit(Out(r0, Ev("stderr", "claude binary not found",
                                    <<>>)), 1)

\* lines 252-341: environment, title, executable
mainFS_prepare(run, lookup, environ) ==
  LET r1 == main_env(run, environ)
      r2 == setTerminalTitle(r1, r1.configName)
      r3 == mainFS_locate(r2, lookup)
      r4 == IF r3.pc = "resolved" /\ r3.verbose
            THEN Out(r3, Ev("stdout", "Binary resolution time:", <<>>)) ELSE r3
  IN  IF r4.pc = "resolved" THEN [r4 EXCEPT !.pc = "ready"] ELSE r4

\* lines 343-359 and 697-707: syscall.Exec replaces the process or fails
main_exec(run, execOk) ==
  LET argv == <<s_claude>> \o run.transformedArgs
      r1 == IF run.verbose
            THEN Out(run, Ev("stdout", "Executing:", argv)) ELSE run
      r2 == Out(r1, Ev("exec", "syscall.Exec",
                       [path |-> run.claudePath, argv |-> argv,
                        env |-> run.env]))
  IN  IF execOk THEN [r2 EXCEPT !.pc = "replaced"]
      ELSE Exit(Out(r2, Ev("stderr", "Error executing claude", <<>>)), 1)

(***************************************************************************)
(* The resolvers applied to every bounded argument vector.                 *)
(***************************************************************************)
NoResult == [status |-> "none"]

\* the parts of the state a specification does not use stay idle
ResolverIdle ==
  /\ rArgs = <<>>
  /\ rConfigs = TestConfigs({})
  /\ called = "idle"
  /\ result = NoResult

EnvIdle ==
  /\ eEnviron = <<>>
  /\ eDefault = EmptyConfig
  /\ eSelected = EmptyConfig
  /\ eEnv = [built |-> TRUE, env |-> {}]

MainIdle ==
  /\ mVariant = "none"
  /\ mArgs = <<>>
  /\ mFile = [exists |-> FALSE, kind |-> "json", configs |-> NoConfigs]
  /\ mRun = main_init

ResolverInit ==
  /\ rArgs \in ArgVectors(MaxArgs)
  /\ rConfigs \in { TestConfigs(names) : names \in KnownNameSets }
  /\ called = "none"
  /\ result = NoResult
  /\ EnvIdle
  /\ MainIdle

CallParseFlags ==
  /\ called = "none"
  /\ called' = "parseFlags"
  /\ result' = parseFlags(rArgs, rConfigs)
  /\ UNCHANGED <<rArgs, rConfigs, envVars, mainVars>>

CallParseArgs ==
  /\ called = "none"
  /\ called' = "parseArgs"
  /\ result' = parseArgs(rArgs)
  /\ UNCHANGED <<rArgs, rConfigs, envVars, mainVars>>

ResolverNext == CallParseFlags \/ CallParseArgs

Spec == ResolverInit /\ [][ResolverNext]_vars

(***************************************************************************)
(* parseFlags on longer argument vectors over the tokens that matter to    *)
(* the --config flag: the flag in both spellings, the other launcher       *)
(* tokens, a known and an unknown name and the empty string.               *)
(***************************************************************************)
ConfigFlagTokens ==
  { s_config, s_c, s_yolo, s_verbose, s_sentinel, s_zai, s_chat, s_empty }

ConfigFlagInit ==
  /\ rArgs \in UNION { [1..k -> ConfigFlagTokens] : k \in 0..MaxConfigArgs }
  /\ rConfigs \in { TestConfigs(names) : names \in KnownNameSets }
  /\ called = "none"
  /\ result = NoResult
  /\ EnvIdle
  /\ MainIdle

SpecConfigFlag == ConfigFlagInit /\ [][CallParseFlags]_vars


(***************************************************************************)
(* The environment composition applied to every bounded process            *)
(* environment, default config and selected config.                        *)
(***************************************************************************)
k_A == <<"A">>
k_B == <<"B">>
k_AeqB == <<"A", "=", "B">>
\* an os.Environ() entry without "=", which the loop of line 256 skips
e_noEq == <<"J", "U", "N", "K">>

ValueDigits == <<"1", "2", "3", "4", "5", "6", "7", "8", "9">>
EnvValues == { <<ValueDigits[i]>> : i \in 1..MaxVal }

\* keys the process environment may hold, and keys a config file may hold
\* (a JSON object key is any string)
ProcessKeys == {k_A, k_B}
ConfigKeys == {k_A, k_B, k_AeqB}

\* all maps from a subset of keys to values
EnvMaps(keys) == UNION { [ks -> EnvValues] : ks \in SUBSET keys }

\* os.Environ() never repeats a key: one entry per key, then perhaps an
\* entry without "="
EnvironOf(m, junk) ==
  (IF k_A \in DOMAIN m THEN << k_A \o <<"=">> \o m[k_A] >> ELSE <<>>)
  \o (IF k_B \in DOMAIN m THEN << k_B \o <<"=">> \o m[k_B] >> ELSE <<>>)
  \o (IF junk THEN <<e_noEq>> ELSE <<>>)

EnvConfigs == {EmptyConfig} \cup { Config(m) : m \in EnvMaps(ConfigKeys) }

EnvInit ==
  /\ eEnviron \in { EnvironOf(m, j) : m \in EnvMaps(ProcessKeys), j \in BOOLEAN }
  /\ eDefault \in EnvConfigs
  /\ eSelected \in EnvConfigs
  /\ eEnv = [built |-> FALSE, env |-> {}]
  /\ ResolverIdle
  /\ MainIdle

ComposeEnv ==
  /\ ~eEnv.built
  /\ eEnv' = [built |-> TRUE, env |-> composeEnv(eEnviron, eDefault, eSelected)]
  /\ UNCHANGED <<eEnviron, eDefault, eSelected, resolverVars, mainVars>>

EnvNext == ComposeEnv

SpecEnv == EnvInit /\ [][EnvNext]_vars

(***************************************************************************)
(* main run on every bounded command line, in both variants, against a     *)
(* config file that is missing, unparsable or holds one of two config      *)
(* sets; the outcome of every external interaction is chosen freely.       *)
(***************************************************************************)
MainTokens ==
  { s_sentinel, s_help, s_h, s_dashlist, s_list, s_verbose, s_yolo, s_config,
    s_zai, s_chat, s_default, s_empty, s_helpword, s_dash }

k_TOKEN == <<"T", "O", "K", "E", "N">>

\* a file with a default env, a named config with a sensitive key and a
\* config named "default"; and a file with only a binary path
MainConfigsA ==
  [Bin |-> s_empty,
   Default |-> Config((k_A :> <<"2">>)),
   Configs |-> (s_zai :> Config((k_TOKEN :> <<"9">>))
                @@ s_default :> EmptyConfig)]
MainConfigsB ==
  [Bin |-> p_bin, Default |-> EmptyConfig, Configs |-> <<>>]

MainFiles ==
  { [exists |-> FALSE, kind |-> "json", configs |-> NoConfigs],
    [exists |-> TRUE, kind |-> "garbage", configs |-> NoConfigs],
    [exists |-> TRUE, kind |-> "json", configs |-> MainConfigsA],
    [exists |-> TRUE, kind |-> "json", configs |-> MainConfigsB] }

MainEnvirons ==
  { << k_A \o <<"=", "1">> >>,
    << k_A \o <<"=", "1">>, k_TMUX \o <<"=", "1">> >> }

MainInit ==
  /\ mVariant \in {"handrolled", "flagset"}
  /\ mArgs \in UNION { [1..n -> MainTokens] : n \in 0..MaxMainArgs }
  /\ mFile \in MainFiles
  /\ mRun = main_init
  /\ ResolverIdle
  /\ EnvIdle

\* the file after a run that called loadConfigs with this outcome
FileAfter(run, outcome) == IF run.loadCalled THEN outcome.file ELSE mFile

MainResolveHR ==
  /\ mVariant = "handrolled"
  /\ mRun.pc = "start"
  /\ \E outcome \in loadConfigs(mFile) :
       /\ mRun' = mainHR_resolve(mArgs, mRun, outcome)
       /\ mFile' = FileAfter(mRun', outcome)
  /\ UNCHANGED <<mVariant, mArgs, resolverVars, envVars>>

MainResolveFS ==
  /\ mVariant = "flagset"
  /\ mRun.pc = "start"
  /\ \E outcome \in loadConfigs(mFile) :
       /\ mRun' = mainFS_resolve(mArgs, mRun, outcome)
       /\ mFile' = FileAfter(mRun', outcome)
  /\ UNCHANGED <<mVariant, mArgs, resolverVars, envVars>>

MainPrepareHR ==
  /\ mVariant = "handrolled"
  /\ mRun.pc = "resolved"
  /\ \E lookup \in {"found", "fallback", "none"}, environ \in MainEnvirons :
       mRun' = mainHR_prepare(mRun, lookup, environ)
  /\ UNCHANGED <<mVariant, mArgs, mFile, resolverVars, envVars>>

MainPrepareFS ==
  /\ mVariant = "flagset"
  /\ mRun.pc = "resolved"
  /\ \E lookup \in {"found", "none"}, environ \in MainEnvirons :
       mRun' = mainFS_prepare(mRun, lookup, environ)
  /\ UNCHANGED <<mVariant, mArgs, mFile, resolverVars, envVars>>

MainExec ==
  /\ mRun.pc = "ready"
  /\ \E execOk \in BOOLEAN : mRun' = main_exec(mRun, execOk)
  /\ UNCHANGED <<mVariant, mArgs, mFile, resolverVars, envVars>>

\* the same command is run again after a run that created the config file
MainRerun ==
  /\ mRun.runNo = 1
  /\ mRun.pc = "exited"
  /\ \E i \in 1..Len(mRun.events) :
       mRun.events[i].text = "Created default config at"
  /\ mRun' = [main_init EXCEPT !.runNo = 2]
  /\ UNCHANGED <<mVariant, mArgs, mFile, resolverVars, envVars>>

MainNext ==
  \/ MainRerun
  \/ MainResolveHR
  \/ MainResolveFS
  \/ MainPrepareHR
  \/ MainPrepareFS
  \/ MainExec

SpecMain == MainInit /\ [][MainNext]_vars

(***************************************************************************)
(* Vocabulary of the claims about the resolvers.                           *)
(***************************************************************************)
\* the launcher tokens of the specification's table
LauncherTokens ==
  { s_config, s_c, s_yolo, s_y, s_verbose, s_help, s_h, s_sentinel }

BeginsWithDash(tok) == Len(tok) > 0 /\ tok[1] = "-"

KnownNames == DOMAIN rConfigs.Configs

Prefix(s, n) == SubSeq(s, 1, n)

\* the position of the token at which the scan halted without consuming it:
\* a stop-and-forward, a rejected flag, or the token parseFlags died on
HaltAt ==
  IF called = "parseFlags" /\ result.status = "panic" THEN result.i
  ELSE result.stopAt

\* the other spelling of a flag that has two
OtherSpelling(tok) ==
  IF tok = s_y THEN s_yolo
  ELSE IF tok = s_yolo THEN s_y
  ELSE IF tok = s_c THEN s_config
  ELSE IF tok = s_config THEN s_c
  ELSE tok

(***************************************************************************)
(* C1, as stated: in both resolvers, once the scan reaches the first token *)
(* that is not a launcher token, that token and every later one are        *)
(* returned unchanged as the pass-through arguments, and no later token    *)
(* sets yolo, verbose, help or the config name.  (Read here of the runs    *)
(* in which the resolver returns at all.)                                  *)
(***************************************************************************)
C1_AsStated ==
  ( /\ called # "none"
    /\ result.status # "panic"
    /\ HaltAt # 0
    /\ rArgs[HaltAt] \notin LauncherTokens ) =>
    /\ result.status = "ok"
    /\ called = "parseFlags" =>
         LET pre == parseFlags(Prefix(rArgs, HaltAt - 1), rConfigs)
         IN  /\ result.remainingArgs = SuffixFrom(rArgs, HaltAt)
             /\ result.configName = pre.configName
             /\ result.yolo = pre.yolo
             /\ result.verbose = pre.verbose
    /\ called = "parseArgs" =>
         LET pre == parseArgs(Prefix(rArgs, HaltAt - 1))
         IN  /\ result.remaining = SuffixFrom(rArgs, HaltAt)
             /\ result.Yolo = pre.Yolo
             /\ result.Verbose = pre.Verbose
             /\ result.Help = pre.Help

(***************************************************************************)
(* C1, amended: once the scan reaches the first token the resolver does    *)
(* not consume, it halts and no later token sets yolo, verbose, help or    *)
(* the config name.  parseFlags returns that token and every later one as  *)
(* the pass-through arguments, except that it panics when that token is    *)
(* the empty string.  parseArgs does so when that token is a bare word     *)
(* (shorter than two characters or not beginning with "-"); when it is an  *)
(* undefined or malformed flag, parseArgs returns an error, no options and *)
(* no pass-through arguments.                                              *)
(***************************************************************************)
C1_HaltsAtFirstUnconsumed ==
  (called # "none" /\ HaltAt # 0) =>
    LET h == HaltAt
        tok == rArgs[h]
    IN  /\ called = "parseFlags" =>
             IF tok = s_empty
             THEN result.status = "panic"
             ELSE LET pre == parseFlags(Prefix(rArgs, h - 1), rConfigs)
                  IN  /\ result.status = "ok"
                      /\ result.remainingArgs = SuffixFrom(rArgs, h)
                      /\ result.configName = pre.configName
                      /\ result.yolo = pre.yolo
                      /\ result.verbose = pre.verbose
        /\ called = "parseArgs" =>
             IF Len(tok) < 2 \/ ~BeginsWithDash(tok)
             THEN LET pre == parseArgs(Prefix(rArgs, h - 1))
                  IN  /\ result.status = "ok"
                      /\ result.remaining = SuffixFrom(rArgs, h)
                      /\ result.Yolo = pre.Yolo
                      /\ result.Verbose = pre.Verbose
                      /\ result.Help = pre.Help
             ELSE /\ result.status = "error"
                  /\ result.err # errNil
                  /\ result.remaining = <<>>
                  /\ ~result.Yolo /\ ~result.Verbose /\ ~result.Help

\* [--yolo, chat, --verbose] resolved by parseFlags: yolo, not verbose,
\* pass-through [chat, --verbose]
C1_Witness ==
  /\ called = "parseFlags"
  /\ rArgs = <<s_yolo, s_chat, s_verbose>>
  /\ result.status = "ok"
  /\ result.yolo /\ ~result.verbose
  /\ result.remainingArgs = <<s_chat, s_verbose>>

(***************************************************************************)
(* C2: when parseFlags reaches the token "--", the pass-through arguments  *)
(* are exactly the tokens after it, the "--" is not forwarded, and no      *)
(* later token changes configName, yolo or verbose or raises an error.     *)
(***************************************************************************)
C2_SentinelForwardsRest ==
  called = "parseFlags" =>
    /\ \* "--" after nothing but yolo/verbose flags is reached by the scan
       \A s \in 1..Len(rArgs) :
         ( /\ rArgs[s] = s_sentinel
           /\ \A j \in 1..(s - 1) : rArgs[j] \in {s_yolo, s_y, s_verbose} )
         => result.sentinelAt = s
    /\ result.sentinelAt # 0 =>
         LET s == result.sentinelAt
             pre == parseFlags(Prefix(rArgs, s - 1), rConfigs)
         IN  /\ rArgs[s] = s_sentinel
             /\ result.status = "ok"
             /\ result.err = errNil
             /\ result.remainingArgs = SuffixFrom(rArgs, s + 1)
             /\ result.configName = pre.configName
             /\ result.yolo = pre.yolo
             /\ result.verbose = pre.verbose

\* [--yolo, --, --config]: the dangling --config behind the sentinel is
\* forwarded and raises nothing
C2_Witness ==
  /\ called = "parseFlags"
  /\ rArgs = <<s_yolo, s_sentinel, s_config>>
  /\ result.sentinelAt = 2
  /\ result.remainingArgs = <<s_config>>
  /\ result.configName = s_empty

(***************************************************************************)
(* Vocabulary of the claims about main.                                    *)
(***************************************************************************)
\* the position in os.Args[1:] of the "--" the resolver of this variant
\* takes as the sentinel, 0: none
MainSentinelAt ==
  IF mVariant = "handrolled"
  THEN parseFlags(mArgs, mRun.configs).sentinelAt
  ELSE IF Len(mArgs) = 0 \/ mArgs[1] = s_list THEN 0
  ELSE LET s == parseArgs(SuffixFrom(mArgs, 2)).sentinelAt
       IN  IF s = 0 THEN 0 ELSE s + 1

\* the argument vector handed to syscall.Exec by a run that was replaced
LaunchedArgv == mRun.events[Len(mRun.events)].data.argv

(***************************************************************************)
(* C3: in every invocation of main, a token after the "--" sentinel is     *)
(* never interpreted by the launcher: it triggers neither the usage text,  *)
(* nor the list, nor verbose logging, it sets neither yolo nor the config  *)
(* name, and a run that launches the target forwards it.                   *)
(***************************************************************************)
C3_NothingAfterSentinelInterpreted ==
  (mRun.pc # "start" /\ MainSentinelAt # 0) =>
    LET s == MainSentinelAt
    IN  /\ mRun.helpAt <= s
        /\ mRun.listAt <= s
        /\ mRun.verboseAt <= s
        /\ mRun.yolo => \E j \in 1..(s - 1) : mArgs[j] = s_yolo
        /\ mRun.configName # s_empty =>
             \E j \in 1..(s - 1) : mArgs[j] = mRun.configName
        /\ mRun.pc = "replaced" =>
             /\ Len(LaunchedArgv) >= Len(mArgs) - s
             /\ SuffixFrom(LaunchedArgv,
                           Len(LaunchedArgv) - (Len(mArgs) - s) + 1)
                  = SuffixFrom(mArgs, s + 1)

(***************************************************************************)
(* C4: for every argument sequence parseFlags parses without error, the    *)
(* pass-through arguments are exactly the tokens it did not consume as a   *)
(* launcher flag, a --config/-c value, the positional config name or the   *)
(* sentinel, once each and in order, and they are a contiguous suffix of   *)
(* the input.                                                              *)
(***************************************************************************)
C4_PassThroughIsUnconsumedSuffix ==
  (called = "parseFlags" /\ result.status = "ok") =>
    /\ \E k \in 0..Len(rArgs) :
         /\ result.consumed = 1..k
         /\ result.remainingArgs = SuffixFrom(rArgs, k + 1)
    /\ \A j \in result.consumed :
         \/ rArgs[j] \in {s_config, s_c, s_yolo, s_y, s_verbose, s_sentinel}
         \/ /\ j > 1
            /\ (j - 1) \in result.scanned
            /\ rArgs[j - 1] \in {s_config, s_c}
         \/ /\ j \in result.scanned
            /\ rArgs[j] \in KnownNames
            /\ ~BeginsWithDash(rArgs[j])
    /\ \A j \in (1..Len(rArgs)) \ result.consumed :
         result.remainingArgs[j - Cardinality(result.consumed)] = rArgs[j]

\* [zai, --, --model] with zai known: the name and the sentinel are consumed
\* and the rest is forwarded
C4_Witness ==
  /\ called = "parseFlags"
  /\ result.status = "ok"
  /\ rArgs = <<s_zai, s_sentinel, s_model>>
  /\ result.consumed = {1, 2}
  /\ result.remainingArgs = <<s_model>>


(***************************************************************************)
(* C5, as stated: for every argument sequence containing no launcher       *)
(* token, parseFlags returns the input unchanged as the pass-through       *)
(* arguments and leaves the config name unset, whatever the known names.   *)
(* (Read here of the runs in which parseFlags returns at all.)             *)
(***************************************************************************)
NoLauncherTokens == \A j \in 1..Len(rArgs) : rArgs[j] \notin LauncherTokens

C6_ErrorIffDanglingConfig ==
  called = "parseFlags" =>
    LET n == Len(rArgs)
        dangling == /\ n > 0
                    /\ n \in result.scanned
                    /\ rArgs[n] \in {s_config, s_c}
    IN  /\ (result.status = "error") <=> dangling
        /\ result.status = "error" => result.err = errConfigRequiresValue
        /\ result.status # "error" => result.err = errNil
        /\ \* a config flag after nothing but yolo/verbose flags is reached
           ( /\ n > 0
             /\ rArgs[n] \in {s_config, s_c}
             /\ \A j \in 1..(n - 1) : rArgs[j] \in {s_yolo, s_y, s_verbose} )
           => dangling

\* [--verbose, -c]: the short spelling gives the long spelling's message
C6_Witness ==
  /\ called = "parseFlags"
  /\ rArgs = <<s_verbose, s_c>>
  /\ result.status = "error"
  /\ result.err = errConfigRequiresValue

(***************************************************************************)
(* C7: when parseFlags fails with the missing-value error it returns no    *)
(* partial result: configName is empty, yolo and verbose are false and the *)
(* pass-through list is empty, whatever preceded the dangling flag.        *)
(***************************************************************************)
C7_NoPartialResult ==
  (called = "parseFlags" /\ result.status = "error") =>
    /\ result.configName = s_empty
    /\ ~result.yolo
    /\ ~result.verbose
    /\ result.remainingArgs = <<>>

(***************************************************************************)
(* C8: the short and long spellings are interchangeable: replacing -y by   *)
(* --yolo or -c by --config (or the reverse) at a position the scan        *)
(* classifies yields an identical parseFlags result, and a repeated yolo   *)
(* flag leaves yolo true.                                                  *)
(***************************************************************************)
C8_SpellingsInterchangeable ==
  called = "parseFlags" =>
    /\ \A j \in result.scanned :
         parseFlags([rArgs EXCEPT ![j] = OtherSpelling(rArgs[j])], rConfigs)
           = result
    /\ ( /\ result.status \in {"ok", "error"}
         /\ \E j \in result.scanned : rArgs[j] \in {s_yolo, s_y} )
       => result.yolo

\* [-y, --yolo, -c]: both spellings of yolo, and the short config flag
\* dangling
C8_Witness ==
  /\ called = "parseFlags"
  /\ rArgs = <<s_y, s_yolo, s_c>>
  /\ result.scanned = {1, 2, 3}
  /\ result.yolo
  /\ result.status = "error"

(***************************************************************************)
(* C9: while configName is unset, a scanned token that does not begin with *)
(* "-" is consumed as the config name when it equals a known name exactly, *)
(* and otherwise stops the scan and is forwarded with all following        *)
(* tokens, configName staying unset.                                       *)
(***************************************************************************)
C9_PositionalDisambiguation ==
  called = "parseFlags" =>
    \A j \in result.scanned :
      LET pre == parseFlags(Prefix(rArgs, j - 1), rConfigs)
      IN  (pre.configName = s_empty /\ ~BeginsWithDash(rArgs[j])) =>
            IF rArgs[j] \in KnownNames
            THEN /\ j \in result.consumed
                 /\ result.stopAt # j
                 /\ result.status = "ok" =>
                      Len(result.remainingArgs) <= Len(rArgs) - j
            ELSE /\ result.status = "ok"
                 /\ result.stopAt = j
                 /\ result.remainingArgs = SuffixFrom(rArgs, j)
                 /\ result.configName = s_empty


(***************************************************************************)
(* C10: the environment handed to the target has the keys of the process   *)
(* environment P, of the default env D and of the selected env S, and for  *)
(* each key k the value S[k] if k is in S, else D[k] if k is in D, else    *)
(* P[k]; an absent env map behaves as an empty one.  The target reads an   *)
(* entry of its environment as key, "=", value, split at the first "=".    *)
(***************************************************************************)
\* the process environment as a mapping
ProcessEnv ==
  LET at == { i \in 1..Len(eEnviron) : FirstEq(eEnviron[i]) # 0 }
      key(i) == SubSeq(eEnviron[i], 1, FirstEq(eEnviron[i]) - 1)
  IN  [k \in { key(i) : i \in at } |->
         LET i == CHOOSE i \in at : key(i) = k
         IN  SuffixFrom(eEnviron[i], FirstEq(eEnviron[i]) + 1)]

\* a config's env as a mapping, absent read as empty
EnvOf(cfg) == IF cfg.Env.isNil THEN <<>> ELSE cfg.Env.kv

\* the (key, value) pairs the target finds in the environment it was handed
Handed ==
  { <<SubSeq(e, 1, FirstEq(e) - 1), SuffixFrom(e, FirstEq(e) + 1)>> :
      e \in eEnv.env }

C10_PrecedenceMapping ==
  eEnv.built =>
    LET P == ProcessEnv
        D == EnvOf(eDefault)
        S == EnvOf(eSelected)
        keys == DOMAIN P \cup DOMAIN D \cup DOMAIN S
    IN  Handed = { <<k, IF k \in DOMAIN S THEN S[k]
                        ELSE IF k \in DOMAIN D THEN D[k]
                        ELSE P[k]>> : k \in keys }

(***************************************************************************)
(* Vocabulary of the claims about a run of main.                           *)
(***************************************************************************)
\* the positions of the syscall.Exec calls among the events of the run
ExecEvents ==
  { i \in 1..Len(mRun.events) : mRun.events[i].kind = "exec" }

\* the resolver of the variant applied to the command line of the run
ResolvedYolo ==
  IF mVariant = "handrolled" THEN parseFlags(mArgs, mRun.configs).yolo
  ELSE parseArgs(SuffixFrom(mArgs, 2)).Yolo

ResolvedPassThrough ==
  IF mVariant = "handrolled"
  THEN parseFlags(mArgs, mRun.configs).remainingArgs
  ELSE parseArgs(SuffixFrom(mArgs, 2)).remaining

\* how often tok occurs in s
Count(s, tok) == Cardinality({ j \in 1..Len(s) : s[j] = tok })

(***************************************************************************)
(* C11: the argument list handed to the target after argv[0] is            *)
(* --dangerously-skip-permissions followed by the resolved pass-through    *)
(* arguments when yolo is true and exactly the resolved pass-through       *)
(* arguments when it is false; the literal token is inserted once however  *)
(* often the yolo flag was given.                                          *)
(***************************************************************************)
C11_YoloExpansion ==
  \A i \in ExecEvents :
    LET argv == mRun.events[i].data.argv
    IN  /\ argv = <<s_claude>>
                  \o (IF ResolvedYolo THEN <<s_skip>> ELSE <<>>)
                  \o ResolvedPassThrough
        /\ Count(argv, s_skip) = (IF ResolvedYolo THEN 1 ELSE 0)
                                 + Count(ResolvedPassThrough, s_skip)

\* [--yolo, --yolo, chat] launched by the hand-rolled main: one literal token
C11_Witness ==
  /\ mVariant = "handrolled"
  /\ mArgs = <<s_yolo, s_yolo, s_chat>>
  /\ mRun.pc = "replaced"
  /\ LaunchedArgv = <<s_claude, s_skip, s_chat>>

\* the texts of the events of the run
EventTexts == { mRun.events[i].text : i \in 1..Len(mRun.events) }

\* the run composed the environment, set the title, looked for the
\* executable or called syscall.Exec
LaunchStarted ==
  \/ mRun.pc \in {"ready", "replaced"}
  \/ mRun.env # {}
  \/ EventTexts \cap { "tmux rename-window", "ESC]0;title BEL",
                       "which claude", "exec.LookPath claude",
                       "syscall.Exec" } # {}

\* the config name main resolved is set, is not "default" and is no key of
\* configs
UnknownName ==
  /\ mRun.configName # s_empty
  /\ mRun.configName # s_default
  /\ mRun.configName \notin DOMAIN mRun.configs.Configs

(***************************************************************************)
(* C12, as stated: whenever the resolved config name is set, is not        *)
(* "default" and is no key of configs, the run terminates with exit status *)
(* 1 before the environment is composed, the title is set or the target is *)
(* launched, and the default configuration is not used in its place.       *)
(***************************************************************************)
C12_AsStated ==
  (mRun.pc # "start" /\ UnknownName) =>
    /\ mRun.pc = "exited"
    /\ mRun.exit = 1
    /\ ~LaunchStarted
    /\ mRun.selectedConfig = main_init.selectedConfig

(***************************************************************************)
(* C12, amended: whenever the resolved config name is set, is not          *)
(* "default" and is no key of configs, the run terminates before the       *)
(* environment is composed, the title is set or the target is launched,    *)
(* and the default configuration is not used in its place.  Its exit       *)
(* status is 1, except in the flag-set variant when a help flag was parsed *)
(* and the config file was loaded: that run prints the usage text and      *)
(* exits 0.  When the file was loaded and the status is 1, the name is     *)
(* reported as not found.                                                  *)
(***************************************************************************)
C12_UnknownConfigFails ==
  (mRun.pc # "start" /\ UnknownName) =>
    LET helped == mVariant = "flagset" /\ mRun.help /\ mRun.loaded
    IN  /\ mRun.pc = "exited"
        /\ mRun.exit = (IF helped THEN 0 ELSE 1)
        /\ helped => "Usage:" \in EventTexts
        /\ (mRun.loaded /\ ~helped) => "Config not found" \in EventTexts
        /\ ~LaunchStarted
        /\ mRun.selectedConfig = main_init.selectedConfig

\* [--config, chat] against a file that has no config named chat
C12_Witness ==
  /\ mVariant = "handrolled"
  /\ mArgs = <<s_config, s_chat>>
  /\ mRun.loaded
  /\ mRun.configName = s_chat
  /\ mRun.pc = "exited" /\ mRun.exit = 1
  /\ "Config not found" \in EventTexts

(***************************************************************************)
(* C13: when the resolved config name is the literal "default", the        *)
(* default configuration is selected and the run proceeds to launch,       *)
(* whether or not configs has a key named "default", and whether the name  *)
(* was given by position or through --config / -c.                         *)
(***************************************************************************)
C13_DefaultNameSelectsDefault ==
  ( /\ mRun.pc # "start"
    /\ mRun.loaded
    /\ mRun.configName = s_default
    /\ ~mRun.help ) =>
    /\ "Config not found" \notin EventTexts
    /\ mRun.selectedConfig = mRun.configs.Default
    /\ mRun.pc = "exited" => LaunchStarted

(***************************************************************************)
(* C14: the set of configuration names reported to the user, by the list   *)
(* operation and in the report of a config that was not found, is exactly  *)
(* "default" together with the keys of configs.                            *)
(***************************************************************************)
C14_ReportedNames ==
  \A i \in 1..Len(mRun.events) :
    mRun.events[i].text = "Available configurations:" =>
      /\ mRun.loaded
      /\ mRun.events[i].data = {s_default} \cup DOMAIN mRun.configs.Configs

(***************************************************************************)
(* C15: with a loadable config file, an invocation whose first argument is *)
(* list, help, --help or -h prints the list (for list) or the usage text   *)
(* (for the help spellings), terminates with exit status 0 and never       *)
(* launches the target.                                                    *)
(***************************************************************************)
C15_ListAndHelpExitZero ==
  ( /\ mRun.pc # "start"
    /\ mRun.loaded
    /\ Len(mArgs) > 0
    /\ mArgs[1] \in {s_list, s_helpword, s_help, s_h} ) =>
    /\ mRun.pc = "exited"
    /\ mRun.exit = 0
    /\ IF mArgs[1] = s_list
       THEN "Available configurations:" \in EventTexts
       ELSE "Usage:" \in EventTexts
    /\ ExecEvents = {}

(***************************************************************************)
(* C16: a run ends in one of two ways.  Either syscall.Exec is called,     *)
(* once and only after the arguments were resolved, the config file was    *)
(* loaded, the config was selected and the executable was found; or the    *)
(* process exits without that call.  The exit status is 0 only for help    *)
(* and list and 1 for every error, a failed syscall.Exec included, after   *)
(* which nothing else is done.                                             *)
(***************************************************************************)
C16_RunEndings ==
  LET n == Len(mRun.events)
      last == mRun.events[n]
  IN  /\ Cardinality(ExecEvents) <= 1
      /\ \A i \in ExecEvents :
           /\ mRun.loaded
           /\ mRun.claudePath # s_empty
           /\ mRun.events[i].data.path = mRun.claudePath
           /\ "Config not found" \notin EventTexts
           /\ \/ i = n /\ mRun.pc = "replaced"
              \/ /\ i = n - 1
                 /\ last.text = "Error executing claude"
                 /\ mRun.pc = "exited" /\ mRun.exit = 1
      /\ mRun.pc = "replaced" => ExecEvents # {}
      /\ mRun.pc \in {"exited", "panicked"} =>
           /\ mRun.exit \in {0, 1}
           /\ mRun.exit = 0 <=>
                (n > 0 /\ last.text \in {"Usage:", "Available configurations:"}
                       /\ "Config not found" \notin EventTexts)
           /\ mRun.exit = 1 => (n > 0 /\ last.kind = "stderr")

\* the config file as loadConfigs writes it
CreatedFile == [exists |-> TRUE, kind |-> "json", configs |-> ExampleConfigs]

\* a first run that started without a config file and met no failure of
\* os.MkdirAll or os.WriteFile: it created the file, or it never called
\* loadConfigs
FirstRunWithoutFile ==
  /\ mRun.runNo = 1
  /\ mRun.pc # "start"
  /\ \/ "Created default config at" \in EventTexts
     \/ ~mFile.exists /\ ~mRun.loadCalled

\* a later run of the command, the file being present
LaterRun == mRun.runNo = 2 /\ mRun.pc # "start"

DefinedFlagTokens ==
  { <<"-">> \o n : n \in DOMAIN parseArgs_formal }
  \cup { <<"-", "-">> \o n : n \in DOMAIN parseArgs_formal }

\* the flag package takes a token for a flag when it has two characters or
\* more and begins with "-"; "--" alone ends the flags
IsFlagToken(s) == Len(s) >= 2 /\ s[1] = "-" /\ s # s_sentinel

\* the first position of args that holds a non-flag token or "--",
\* Len(args) + 1: none
FirstNonFlagAt(args) ==
  LET at == { k \in 1..Len(args) : ~IsFlagToken(args[k]) }
  IN  IF at = {} THEN Len(args) + 1
      ELSE CHOOSE k \in at : \A j \in at : k <= j

\* the positions before the first non-flag token or "--" that hold a flag
\* token naming no defined flag
UndefinedFlagsAt(args) ==
  { k \in 1..(FirstNonFlagAt(args) - 1) : args[k] \notin DefinedFlagTokens }

\* a flag token without its dashes
FlagName(s) == IF s[2] = "-" THEN SuffixFrom(s, 3) ELSE SuffixFrom(s, 2)

\* what the flag-set main gives parseArgs: the arguments after the name
FlagSetRest == SuffixFrom(mArgs, 2)

(***************************************************************************)
(* C18: in the flag-set variant, when a flag token that names no defined   *)
(* flag stands before the first non-flag token or "--" of the arguments    *)
(* parseArgs is given, parseArgs returns the error "flag provided but not  *)
(* defined: -NAME" for the first such token, with no options and no        *)
(* remaining arguments, and main exits with status 1 without loading the   *)
(* config file or launching; when every argument is a defined flag,        *)
(* parseArgs returns no error, no remaining arguments and the options the  *)
(* flags name.                                                             *)
(***************************************************************************)
C18_StrictParseArgs ==
  (mVariant = "flagset" /\ Len(mArgs) > 0 /\ mArgs[1] # s_list) =>
    LET res == parseArgs(FlagSetRest)
        bad == UndefinedFlagsAt(FlagSetRest)
    IN  /\ bad # {} =>
             LET k == CHOOSE k \in bad : \A j \in bad : k <= j
             IN  /\ res.status = "error"
                 /\ res.err = <<"flag provided but not defined: -">>
                                \o FlagName(FlagSetRest[k])
                 /\ ~res.Yolo /\ ~res.Verbose /\ ~res.Help
                 /\ res.remaining = <<>>
                 /\ mRun.pc # "start" =>
                      /\ mRun.pc = "exited" /\ mRun.exit = 1
                      /\ "Error parsing flags:" \in EventTexts
                      /\ ~mRun.loadCalled
                      /\ ~LaunchStarted
        /\ (\A k \in 1..Len(FlagSetRest) :
              FlagSetRest[k] \in DefinedFlagTokens) =>
             /\ res.status = "ok"
             /\ res.err = errNil
             /\ res.remaining = <<>>
             /\ res.Yolo <=> \E k \in 1..Len(FlagSetRest) :
                               FlagName(FlagSetRest[k]) \in {n_yolo, n_y}
             /\ res.Verbose <=> \E k \in 1..Len(FlagSetRest) :
                                  FlagName(FlagSetRest[k]) = n_verbose
             /\ res.Help <=> \E k \in 1..Len(FlagSetRest) :
                               FlagName(FlagSetRest[k]) \in {n_help, n_h}

\* [zai, --yolo, --list]: --list is no flag of parseArgs, main exits 1
C18_Witness ==
  /\ mVariant = "flagset"
  /\ mArgs = <<s_zai, s_yolo, s_dashlist>>
  /\ parseArgs(FlagSetRest).err
       = <<"flag provided but not defined: -">> \o <<"l", "i", "s", "t">>
  /\ mRun.pc = "exited" /\ mRun.exit = 1
  /\ "Error parsing flags:" \in EventTexts

\* the events of verbose mode that print a whole Config with %+v
ConfigPrints ==
  { "Using default config: %+v", "Selected config: %+v",
    "Final selected config: %+v" }

\* the events of verbose mode that print the variables of a config one by
\* one
EnvVarPrints == { "Added default env var:", "Added selected env var:" }

\* the <<key, value>> pairs of environment variables that event ev shows
LoggedPairs(ev) ==
  IF ev.text \in EnvVarPrints THEN ev.data
  ELSE IF ev.text \in ConfigPrints
  THEN IF ev.data.Env.isNil THEN {}
       ELSE { <<k, ev.data.Env.kv[k]>> : k \in DOMAIN ev.data.Env.kv }
  ELSE {}

(***************************************************************************)
(* C19: no event of a run shows the value of an environment variable whose *)
(* key is sensitive: every event that shows such a variable of the default *)
(* or the selected configuration shows ***masked*** in place of the value, *)
(* and the environment handed on is the composition of the process         *)
(* environment, the default and the selected configuration with the        *)
(* values unmasked.                                                        *)
(***************************************************************************)
C19_SensitiveValuesMasked ==
  /\ \A i \in 1..Len(mRun.events) :
       \A p \in LoggedPairs(mRun.events[i]) :
         isSensitiveKey(p[1]) => p[2] = s_masked
  /\ mRun.env # {} =>
       mRun.env = composeEnv(mRun.environ, mRun.configs.Default,
                             mRun.selectedConfig)

C21_ParseFlagsReturns ==
  called = "parseFlags" =>
    /\ result.status \in {"ok", "error"}
    /\ result.status = "error" => result.err = errConfigRequiresValue

\* the positions at which parseFlags met --config or -c followed by a value
ConfigFlagsAt ==
  { k \in result.scanned : rArgs[k] \in {s_config, s_c} /\ k < Len(rArgs) }

NoDash(s) == Len(s) = 0 \/ s[1] # "-"

\* the positions parseFlags consumed as a positional config name
PositionalNamesAt ==
  { j \in result.scanned \cap result.consumed : NoDash(rArgs[j]) }

\* the positions before k at which parseFlags assigned configName, and the
\* value assigned there
NameSettersBefore(k) ==
  { j \in result.scanned \cap result.consumed :
      j < k /\ (NoDash(rArgs[j]) \/ rArgs[j] \in {s_config, s_c}) }
NameSetAt(j) == IF NoDash(rArgs[j]) THEN rArgs[j] ELSE rArgs[j + 1]

\* configName is set when the scan comes to position k
NameSetBefore(k) ==
  LET at == NameSettersBefore(k)
  IN  /\ at # {}
      /\ NameSetAt(CHOOSE j \in at : \A l \in at : l <= j) # s_empty

(***************************************************************************)
(* C23: parseFlags consumes at most one positional config name; the token  *)
(* after a consumed name is still scanned, so that [zai, --yolo, chat]     *)
(* gives the name zai, yolo and the pass-through [chat]; and once the      *)
(* config name is set, by position or by --config, a scanned token that    *)
(* does not begin with "-" stops the scan and is forwarded with all that   *)
(* follows it, also when it equals a known config name.                    *)
(***************************************************************************)
C23_AtMostOnePositionalName ==
  called = "parseFlags" =>
    /\ Cardinality(PositionalNamesAt) <= 1
    /\ \A j \in PositionalNamesAt :
         j + 1 <= Len(rArgs) => j + 1 \in result.scanned
    /\ ( /\ rArgs = <<s_zai, s_yolo, s_chat>>
         /\ s_zai \in DOMAIN rConfigs.Configs ) =>
         /\ result.configName = s_zai
         /\ result.yolo
         /\ result.remainingArgs = <<s_chat>>
    /\ \A k \in result.scanned :
         (NoDash(rArgs[k]) /\ NameSetBefore(k)) =>
           /\ result.status = "ok"
           /\ result.stopAt = k
           /\ k \notin result.consumed
           /\ result.remainingArgs = SuffixFrom(rArgs, k)

\* the positions among the events of the run of the interactions with other
\* processes and executables: the tmux command, which claude, the lookups
\* of the executable, syscall.Exec
ExternalAt ==
  { i \in 1..Len(mRun.events) :
      mRun.events[i].kind \in {"spawn", "stat", "exec"} }

\* the run ended in an error of the resolution: a resolver error, a config
\* name that was not found, or a panic of the resolver
ResolutionFailed ==
  \/ mRun.pc = "panicked"
  \/ EventTexts \cap {"Error:", "Error parsing flags:", "Config not found"}
       # {}

(***************************************************************************)
(* C24: every interaction of a run with another process or executable      *)
(* (the tmux title command, the lookup of the executable, syscall.Exec)    *)
(* comes after the arguments were parsed, the config selected, the         *)
(* arguments transformed and the environment composed; a run that ends in  *)
(* a resolution error or with a config name that was not found has none.   *)
(***************************************************************************)
C24_ResolutionBeforeInteraction ==
  /\ \A i \in ExternalAt :
       /\ mRun.pc \notin {"start", "panicked"}
       /\ mRun.loaded
       /\ mRun.transformedArgs
            = (IF mRun.yolo THEN <<s_skip>> ELSE <<>>) \o mRun.args
       /\ mRun.envAt >= 0
       /\ i > mRun.envAt
  /\ ResolutionFailed => ExternalAt = {}

(***************************************************************************)
(* C25: in the flag-set variant, when the flags after the config name      *)
(* parse and hold a help flag, main calls loadConfigs and, the file being  *)
(* loaded, prints the usage text and exits with status 0 without           *)
(* validating the config name, selecting a config or launching, whatever   *)
(* the first token is; when loadConfigs fails the run exits 1 without the  *)
(* usage text.  When the flags do not parse, the run exits 1 with the      *)
(* parse error and without the usage text, a help flag among them or not.  *)
(* Without a help flag no usage text is printed.                           *)
(***************************************************************************)
C25_HelpPrecedence ==
  ( /\ mVariant = "flagset"
    /\ mRun.pc # "start"
    /\ Len(mArgs) > 0
    /\ mArgs[1] # s_list ) =>
    LET res == parseArgs(FlagSetRest)
    IN  /\ res.status = "error" =>
             /\ mRun.pc = "exited" /\ mRun.exit = 1
             /\ "Error parsing flags:" \in EventTexts
             /\ "Usage:" \notin EventTexts
             /\ ~mRun.loadCalled
        /\ (res.status = "ok" /\ res.Help) =>
             /\ mRun.loadCalled
             /\ mRun.pc = "exited"
             /\ mRun.exit = (IF mRun.loaded THEN 0 ELSE 1)
             /\ "Usage:" \in EventTexts <=> mRun.loaded
             /\ "Config not found" \notin EventTexts
             /\ mRun.selectedConfig = main_init.selectedConfig
             /\ ~LaunchStarted
        /\ (res.status = "ok" /\ ~res.Help) => "Usage:" \notin EventTexts

\* [chat, --help] against a file that has no config named chat: usage, 0
C25_Witness ==
  /\ mVariant = "flagset"
  /\ mArgs = <<s_chat, s_help>>
  /\ mRun.loaded
  /\ UnknownName
  /\ mRun.pc = "exited" /\ mRun.exit = 0
  /\ "Usage:" \in EventTexts

=============================================================================
